---- MODULE Spec2Model ----
(***************************************************************************)
(* Tile-based dungeon map generator: TileSelector (tile sheets sliced into *)
(* tiles) and MapGenerator (grid, rooms, corridors, queries, two-pass      *)
(* draw), modelled from src/map_engine/tile_selector.py and                *)
(* src/map_engine/map_generator.py.                                        *)
(***************************************************************************)
EXTENDS Integers, Sequences, FiniteSets

VARIABLES
    tile_size,        \* TileSelector.tile_size / MapGenerator.tile_size
    tileset_paths,    \* constructor argument of TileSelector (list of paths)
    img_idx,          \* position of the loading loop in tileset_paths
    tileset_images,   \* TileSelector.tileset_images: list of lists of tiles
    tileset_names,    \* TileSelector.tileset_names
    width, height,    \* MapGenerator.width / height
    room_count, room_min_size, room_max_size,
    tilemap,          \* MapGenerator.tilemap[x][y], 0 = wall, 1 = floor
    rooms,            \* MapGenerator.rooms: list of rectangles
    floor_tileset, floor_tile, wall_tileset, wall_tile,
    pc,               \* "load", "idle", "generate" (in the room loop), "failed"
    i,                \* loop index of generate()
    call,             \* the last call started: <<name, arguments...>>
    result,           \* what the last finished call returned or raised
    drawn,            \* draw calls received by the surface in the last draw()
    reads,            \* the tilemap indices <<x, y>> read by the last draw()
    entry             \* grid and rooms at entry of generate() (SpecFail only)

vars == <<tile_size, tileset_paths, img_idx, tileset_images, tileset_names,
          width, height, room_count, room_min_size, room_max_size,
          tilemap, rooms, floor_tileset, floor_tile, wall_tileset, wall_tile,
          pc, i, call, result, drawn, reads, entry>>

selectorVars == <<tile_size, tileset_paths, img_idx, tileset_images, tileset_names>>
configVars == <<width, height, room_count, room_min_size, room_max_size>>
tileRefVars == <<floor_tileset, floor_tile, wall_tileset, wall_tile>>

(***************************************************************************)
(* Bounds                                                                  *)
(***************************************************************************)
MaxTileSize == 3
MaxImageDim == 5
MaxSources == 3
MaxRoomCount == 3
MaxRoomSize == 2
\* rooms per map where queries and draws are explored
QueryRoomCount == 1
\* rooms per map where failing generations are explored
FailRoomCount == 2
QueryPad == 2
MaxScreen == 7

TileSizes == {MaxTileSize - 1, MaxTileSize}
ImageDims == {MaxImageDim - 3, MaxImageDim}
MaxTiles == (MaxImageDim \div (MaxTileSize - 1)) * (MaxImageDim \div (MaxTileSize - 1))
\* grids one cell too narrow for the largest room, and just wide enough
NarrowGrid == MaxRoomSize + 1
WideGrid == MaxRoomSize + 2

(***************************************************************************)
(* Values                                                                  *)
(***************************************************************************)
Wall == 0
Floor == 1
\* Python's None, as a tile (tiles are tuples <<path, x, y>>)
None == <<>>
NoCall == <<"none">>
NoEntry == <<>>

Min(a, b) == IF a < b THEN a ELSE b
Max(a, b) == IF a > b THEN a ELSE b
\* range(a, b)
Range(a, b) == a .. (b - 1)
\* random.randint(a, b): any integer of [a, b]; empty range raises ValueError
RandInt(a, b) == a .. b

(***************************************************************************)
(* TileSelector                                                            *)
(***************************************************************************)
\* An image file: what os.path.exists and pygame.image.load find at a path.
MissingFile == [kind |-> "missing", w |-> 0, h |-> 0]
CorruptFile == [kind |-> "corrupt", w |-> 0, h |-> 0]
ImageFile(w, h) == [kind |-> "image", w |-> w, h |-> h]

SourceFiles ==
    {MissingFile, CorruptFile} \cup {ImageFile(w, MaxImageDim) : w \in ImageDims}
\* MapGenerator.__init__ hands over only paths that exist
MapTilesetPaths == {<<ImageFile(MaxImageDim, MaxImageDim)>>}

\* Variant: partial trailing columns and rows are kept
SliceTilesPartial(idx, img, ts) ==
    LET cols == (img.w + ts - 1) \div ts
        rows == (img.h + ts - 1) \div ts
    IN  [k \in 1 .. (rows * cols) |->
            <<idx, (k - 1) % cols, (k - 1) \div cols>>]

\* The tiles cut from the image at position idx of the path list, in
\* row-major order: for y in range(height): for x in range(width).
SliceTiles(idx, img, ts) ==
    LET cols == img.w \div ts
        rows == img.h \div ts
    IN  [k \in 1 .. (rows * cols) |->
            <<idx, (k - 1) % cols, (k - 1) \div cols>>]

\* One iteration of the loading loop of TileSelector.__init__
LoadTileset ==
    /\ pc = "load"
    /\ img_idx < Len(tileset_paths)
    /\ LET img_path == tileset_paths[img_idx + 1] IN
        IF img_path.kind = "missing"
        THEN \* warning, continue
             /\ img_idx' = img_idx + 1
             /\ UNCHANGED <<tileset_images, tileset_names, pc, result>>
        ELSE IF img_path.kind = "corrupt"
        THEN \* pygame.error is turned into RuntimeError
             /\ pc' = "failed"
             /\ result' = "RuntimeError"
             /\ UNCHANGED <<tileset_images, tileset_names, img_idx>>
        ELSE /\ tileset_images' =
                    Append(tileset_images, SliceTiles(img_idx, img_path, tile_size))
             /\ tileset_names' = Append(tileset_names, img_idx)
             /\ img_idx' = img_idx + 1
             /\ UNCHANGED <<pc, result>>
    /\ UNCHANGED <<tile_size, tileset_paths, configVars, tilemap, rooms,
                   tileRefVars, i, call, drawn, reads, entry>>

\* The loop is exhausted: the constructor returns
LoadDone ==
    /\ pc = "load"
    /\ img_idx = Len(tileset_paths)
    /\ pc' = "idle"
    /\ UNCHANGED <<selectorVars, configVars, tilemap, rooms, tileRefVars,
                   i, call, result, drawn, reads, entry>>

\* Variant: a negative tile index is not rejected (it counts from the end)
get_tile_no_lower_bound(tileset_idx, tile_idx) ==
    IF 0 <= tileset_idx /\ tileset_idx < Len(tileset_images)
    THEN LET tiles == tileset_images[tileset_idx + 1] IN
         IF (0 - Len(tiles)) <= tile_idx /\ tile_idx < Len(tiles)
         THEN tiles[(IF tile_idx < 0 THEN tile_idx + Len(tiles) ELSE tile_idx) + 1]
         ELSE None
    ELSE None

get_tile(tileset_idx, tile_idx) ==
    IF 0 <= tileset_idx /\ tileset_idx < Len(tileset_images)
    THEN LET tiles == tileset_images[tileset_idx + 1] IN
         IF 0 <= tile_idx /\ tile_idx < Len(tiles)
         THEN tiles[tile_idx + 1]
         ELSE None
    ELSE None

get_tileset_count == Len(tileset_images)

get_tileset_name(tileset_idx) ==
    IF 0 <= tileset_idx /\ tileset_idx < Len(tileset_names)
    THEN <<tileset_names[tileset_idx + 1]>>
    ELSE None

get_tile_count(tileset_idx) ==
    IF 0 <= tileset_idx /\ tileset_idx < Len(tileset_images)
    THEN Len(tileset_images[tileset_idx + 1])
    ELSE 0

\* Arguments tried by the callers of the selector
SheetArgs == (0 - QueryPad) .. (MaxSources + QueryPad)
IndexArgs == (0 - QueryPad) .. (MaxTiles + QueryPad)

Returns(c, r) ==
    /\ call' = c
    /\ result' = r
    /\ UNCHANGED <<selectorVars, configVars, tilemap, rooms, pc, i, entry>>

GetTile ==
    /\ pc = "idle"
    /\ \E s \in SheetArgs, t \in IndexArgs :
          Returns(<<"get_tile", s, t>>, get_tile(s, t))
    /\ UNCHANGED <<tileRefVars, drawn, reads>>

GetTilesetCount ==
    /\ pc = "idle"
    /\ Returns(<<"get_tileset_count">>, get_tileset_count)
    /\ UNCHANGED <<tileRefVars, drawn, reads>>

GetTilesetName ==
    /\ pc = "idle"
    /\ \E s \in SheetArgs : Returns(<<"get_tileset_name", s>>, get_tileset_name(s))
    /\ UNCHANGED <<tileRefVars, drawn, reads>>

GetTileCount ==
    /\ pc = "idle"
    /\ \E s \in SheetArgs : Returns(<<"get_tile_count", s>>, get_tile_count(s))
    /\ UNCHANGED <<tileRefVars, drawn, reads>>

(***************************************************************************)
(* MapGenerator                                                            *)
(***************************************************************************)
\* pygame.Rect(x, y, w, h)
Rect(x, y, w, h) == [x |-> x, y |-> y, w |-> w, h |-> h]
\* Rect.center: (x + w // 2, y + h // 2)
Center(room) == <<room.x + (room.w \div 2), room.y + (room.h \div 2)>>

\* [[0 for _ in range(height)] for _ in range(width)]
AllWall(wd, ht) == [x \in Range(0, wd) |-> [y \in Range(0, ht) |-> Wall]]

InBounds(x, y) == 0 <= x /\ x < width /\ 0 <= y /\ y < height

\* tm with every in-bounds cell of the set cells set to floor
Carve(tm, cells) ==
    [x \in DOMAIN tm |-> [y \in DOMAIN tm[x] |->
        IF <<x, y>> \in cells /\ InBounds(x, y) THEN Floor ELSE tm[x][y]]]

\* Variant: the far column and row of the rectangle are carved too
create_room_inclusive(tm, room) ==
    Carve(tm, {<<x, y>> : x \in room.x .. (room.x + room.w),
                          y \in room.y .. (room.y + room.h)})

create_room(tm, room) ==
    Carve(tm, {<<x, y>> : x \in Range(room.x, room.x + room.w),
                          y \in Range(room.y, room.y + room.h)})

\* Variant: the loop variable is advanced before the first cell is set
StepsAfterFirst(a, b) == IF a < b THEN (a + 1) .. (b - 1) ELSE (b + 1) .. (a - 1)

\* The values the loop variable takes in
\*   step = 1 if a < b else -1; v = a; while v != b: ...; v += step
Steps(a, b) == IF a < b THEN a .. (b - 1) ELSE (b + 1) .. a

\* Variant: the vertical leg runs along the start column
create_corridor_bend_at_start(tm, start, end) ==
    LET x1 == start[1]
        y1 == start[2]
        x2 == end[1]
        y2 == end[2]
        horizontal == Carve(tm, {<<x, y1>> : x \in Steps(x1, x2)})
    IN  Carve(horizontal, {<<x1, y>> : y \in Steps(y1, y2)})

create_corridor(tm, start, end) ==
    LET x1 == start[1]
        y1 == start[2]
        x2 == end[1]
        y2 == end[2]
        horizontal == Carve(tm, {<<x, y1>> : x \in Steps(x1, x2)})
    IN  Carve(horizontal, {<<x2, y>> : y \in Steps(y1, y2)})

\* Variant: the room list is not cleared
ClearRoomsKept(rs) == rs

\* self.rooms.clear()
ClearRooms(rs) == <<>>

\* Variant: the grid is not reset
ResetGridSkipped(tm) == tm

\* for x in range(width): for y in range(height): tilemap[x][y] = 0
ResetGrid(tm) ==
    [x \in DOMAIN tm |-> [y \in DOMAIN tm[x] |->
        IF x \in Range(0, width) /\ y \in Range(0, height) THEN Wall ELSE tm[x][y]]]

\* The room loop goes on while n < room_count; after it generate() returns
LoopOrReturn(n) ==
    IF n < room_count
    THEN pc' = "generate" /\ result' = "pending"
    ELSE pc' = "idle" /\ result' = "returned"

\* generate(): the room list is cleared and the grid reset to walls
generate_clear ==
    /\ call' = <<"generate">>
    /\ drawn' = <<>>
    /\ reads' = {}
    /\ rooms' = ClearRooms(rooms)
    /\ tilemap' = ResetGrid(tilemap)
    /\ i' = 0
    /\ LoopOrReturn(0)
    /\ UNCHANGED <<selectorVars, configVars, tileRefVars>>

GenerateClear ==
    /\ pc = "idle"
    /\ generate_clear
    /\ UNCHANGED entry

\* The state after appending and carving room, and connecting it to the
\* previous room when it is not the first
PlaceRoom(room) ==
    LET withRoom == create_room(tilemap, room) IN
    /\ rooms' = Append(rooms, room)
    /\ tilemap' = IF i > 0
                  THEN create_corridor(withRoom, Center(rooms[i]), Center(room))
                  ELSE withRoom
    /\ i' = i + 1
    /\ LoopOrReturn(i + 1)

\* random.randint raised ValueError (empty range); it propagates to the caller
RaiseValueError ==
    /\ pc' = "idle"
    /\ result' = "ValueError"
    /\ UNCHANGED <<rooms, tilemap, i>>

\* One iteration of the room loop of generate()
GenerateRoom ==
    /\ pc = "generate"
    /\ i < room_count
    /\ \E w \in RandInt(room_min_size, room_max_size),
          h \in RandInt(room_min_size, room_max_size) :
          IF RandInt(1, width - w - 1) = {}
          THEN RaiseValueError
          ELSE \E x \in RandInt(1, width - w - 1) :
                 IF RandInt(1, height - h - 1) = {}
                 THEN RaiseValueError
                 ELSE \E y \in RandInt(1, height - h - 1) :
                        PlaceRoom(Rect(x, y, w, h))
    /\ UNCHANGED <<selectorVars, configVars, tileRefVars, call, drawn, reads, entry>>

\* Python's tilemap[x][y]: a negative index counts from the end
Cell(x, y) ==
    LET col == tilemap[IF x < 0 THEN x + width ELSE x]
    IN  col[IF y < 0 THEN y + height ELSE y]

\* Variant: negative coordinates are not rejected
get_tile_at_no_lower_bound(x, y) ==
    IF (0 - width) <= x /\ x < width /\ (0 - height) <= y /\ y < height
    THEN Cell(x, y)
    ELSE 0

get_tile_at(x, y) ==
    IF 0 <= x /\ x < width /\ 0 <= y /\ y < height
    THEN Cell(x, y)
    ELSE 0

is_walkable(x, y) == get_tile_at(x, y) = 1

\* Coordinates tried by the callers of the map
XArgs == (0 - QueryPad) .. (width - 1 + QueryPad)
YArgs == (0 - QueryPad) .. (height - 1 + QueryPad)

GetTileAt ==
    /\ pc = "idle"
    /\ \E x \in XArgs, y \in YArgs :
          Returns(<<"get_tile_at", x, y>>, get_tile_at(x, y))
    /\ drawn' = <<>>
    /\ reads' = {}
    /\ UNCHANGED tileRefVars

IsWalkable ==
    /\ pc = "idle"
    /\ \E x \in (0 - 1) .. width, y \in (0 - 1) .. height :
          Returns(<<"is_walkable", x, y>>, is_walkable(x, y))
    /\ drawn' = <<>>
    /\ reads' = {}
    /\ UNCHANGED tileRefVars

\* Tile references handed to set_tiles (no validation is done)
TileRefArgs == {<<1, 0, 0, 0>>}

\* Variant: changing the tiles also empties the map
set_tiles_resetting(fs, ft, ws, wt) ==
    /\ floor_tileset' = fs
    /\ floor_tile' = ft
    /\ wall_tileset' = ws
    /\ wall_tile' = wt
    /\ call' = <<"set_tiles", fs, ft, ws, wt>>
    /\ result' = None
    /\ rooms' = <<>>
    /\ tilemap' = AllWall(width, height)
    /\ UNCHANGED <<selectorVars, configVars, pc, i, entry>>

set_tiles(fs, ft, ws, wt) ==
    /\ floor_tileset' = fs
    /\ floor_tile' = ft
    /\ wall_tileset' = ws
    /\ wall_tile' = wt
    /\ Returns(<<"set_tiles", fs, ft, ws, wt>>, None)

SetTiles ==
    /\ pc = "idle"
    /\ \E r \in TileRefArgs : set_tiles(r[1], r[2], r[3], r[4])
    /\ drawn' = <<>>
    /\ reads' = {}

\* The visible window of draw(): [start_x, end_x) x [start_y, end_y)
Window(camera_x, camera_y, screen_w, screen_h) ==
    [start_x |-> Max(0, camera_x \div tile_size),
     end_x   |-> Min(width, ((camera_x + screen_w) \div tile_size) + 1),
     start_y |-> Max(0, camera_y \div tile_size),
     end_y   |-> Min(height, ((camera_y + screen_h) \div tile_size) + 1)]

\* The cells in the order of
\*   for x in range(start_x, end_x): for y in range(start_y, end_y)
WindowCells(win) ==
    LET nx == Max(0, win.end_x - win.start_x)
        ny == Max(0, win.end_y - win.start_y)
    IN  [k \in 1 .. (nx * ny) |->
            <<win.start_x + ((k - 1) \div ny), win.start_y + ((k - 1) % ny)>>]

\* A call on the surface: blit(tile, pos) when the tile exists, else
\* pygame.draw.rect(color, (pos, tile_size, tile_size)); layer and cell
\* tell which pass emitted it and for which cell
FloorColor == <<200, 200, 200>>
WallColor == <<80, 60, 40>>
DrawCall(layer, tile, color, cell, camera_x, camera_y) ==
    [layer |-> layer,
     cell  |-> cell,
     op    |-> IF tile # None THEN "blit" ELSE "rect",
     what  |-> IF tile # None THEN tile ELSE color,
     pos   |-> <<(cell[1] * tile_size) - camera_x, (cell[2] * tile_size) - camera_y>>]

IsFloorCell(c) == Cell(c[1], c[2]) = 1
\* Variant: every wall counts
IsAnyWall(c) == Cell(c[1], c[2]) = 0

\* a wall whose lower neighbour is floor
IsFrontWall(c) ==
    /\ Cell(c[1], c[2]) = 0
    /\ c[2] < height - 1
    /\ Cell(c[1], c[2] + 1) = 1

\* Pass 1: the floor cells of the window
FloorPass(cells, camera_x, camera_y) ==
    LET floor_img == get_tile(floor_tileset, floor_tile)
        hit == SelectSeq(cells, IsFloorCell)
    IN  [k \in 1 .. Len(hit) |->
            DrawCall("floor", floor_img, FloorColor, hit[k], camera_x, camera_y)]

\* Pass 2: the walls of the window that stand on a floor cell
WallPass(cells, camera_x, camera_y) ==
    LET wall_img == get_tile(wall_tileset, wall_tile)
        hit == SelectSeq(cells, IsFrontWall)
    IN  [k \in 1 .. Len(hit) |->
            DrawCall("wall", wall_img, WallColor, hit[k], camera_x, camera_y)]

\* Variant: floors and walls are emitted in one pass over the window
draw_single_pass(camera_x, camera_y, screen_w, screen_h) ==
    LET cells == WindowCells(Window(camera_x, camera_y, screen_w, screen_h))
        hit == SelectSeq(cells, LAMBDA c : IsFloorCell(c) \/ IsFrontWall(c))
    IN  [k \in 1 .. Len(hit) |->
            IF IsFloorCell(hit[k])
            THEN DrawCall("floor", get_tile(floor_tileset, floor_tile),
                          FloorColor, hit[k], camera_x, camera_y)
            ELSE DrawCall("wall", get_tile(wall_tileset, wall_tile),
                          WallColor, hit[k], camera_x, camera_y)]

draw(camera_x, camera_y, screen_w, screen_h) ==
    LET cells == WindowCells(Window(camera_x, camera_y, screen_w, screen_h))
    IN  FloorPass(cells, camera_x, camera_y) \o WallPass(cells, camera_x, camera_y)

\* Variant: the cell below is looked up without the last-row guard
ReadsBelowUnguarded(c) == Cell(c[1], c[2]) = 0

\* the wall pass evaluates tilemap[x][y+1] for the cells that are wall and
\* for which y < height - 1 (the right operand of "and" is not evaluated
\* otherwise)
ReadsBelow(c) ==
    /\ Cell(c[1], c[2]) = 0
    /\ c[2] < height - 1

\* The indices at which draw() subscripts tilemap: tilemap[x][y] for every
\* cell of the window in both passes, tilemap[x][y+1] in the wall pass
draw_reads(camera_x, camera_y, screen_w, screen_h) ==
    LET cells == WindowCells(Window(camera_x, camera_y, screen_w, screen_h))
        lookedAt == {cells[k] : k \in 1 .. Len(cells)}
    IN  lookedAt \cup {<<c[1], c[2] + 1>> : c \in {d \in lookedAt : ReadsBelow(d)}}

\* Camera offsets: left of the map, at its origin, inside, on its last
\* column or row, beyond its end
CameraArgs(n) ==
    {0 - tile_size - 1, 0, tile_size + 1, (n - 1) * tile_size, (n * tile_size) + 1}
ScreenArgs == {<<1, 1>>, <<MaxScreen, MaxScreen - 2>>}

Draw ==
    /\ pc = "idle"
    /\ \E camera_x \in CameraArgs(width), camera_y \in CameraArgs(height),
          size \in ScreenArgs :
          /\ drawn' = draw(camera_x, camera_y, size[1], size[2])
          /\ reads' = draw_reads(camera_x, camera_y, size[1], size[2])
          /\ Returns(<<"draw", camera_x, camera_y, size[1], size[2]>>, None)
    /\ UNCHANGED tileRefVars

\* main: the player is placed on the center of the first room, at start-up
\* and after each regeneration
SpawnCell == Center(rooms[1])

(***************************************************************************)
(* Specifications                                                          *)
(***************************************************************************)
\* A TileSelector about to load its sheets; no map exists
InitSelector ==
    /\ tile_size \in TileSizes
    /\ tileset_paths \in UNION {[1 .. n -> SourceFiles] : n \in 0 .. MaxSources}
    /\ img_idx = 0
    /\ tileset_images = <<>>
    /\ tileset_names = <<>>
    /\ width = 0 /\ height = 0
    /\ room_count = 0 /\ room_min_size = 0 /\ room_max_size = 0
    /\ tilemap = AllWall(0, 0)
    /\ rooms = <<>>
    /\ floor_tileset = 0 /\ floor_tile = 0 /\ wall_tileset = 0 /\ wall_tile = 0
    /\ pc = "load"
    /\ i = 0
    /\ call = NoCall
    /\ result = "none"
    /\ drawn = <<>>
    /\ reads = {}
    /\ entry = NoEntry

NextSelector ==
    \/ LoadTileset
    \/ LoadDone
    \/ GetTile
    \/ GetTilesetCount
    \/ GetTilesetName
    \/ GetTileCount

SpecSelector == InitSelector /\ [][NextSelector]_vars

\* A MapGenerator under construction: fields set, grid all wall, the
\* selector about to load the tile sheets found on disk
InitMap(sizes, widths, heights, counts, roomSizes) ==
    /\ tile_size \in sizes
    /\ tileset_paths \in MapTilesetPaths
    /\ img_idx = 0
    /\ tileset_images = <<>>
    /\ tileset_names = <<>>
    /\ width \in widths
    /\ height \in heights
    /\ room_count \in counts
    /\ \E minmax \in roomSizes :
          /\ room_min_size = minmax[1]
          /\ room_max_size = minmax[2]
    /\ tilemap = AllWall(width, height)
    /\ rooms = <<>>
    /\ floor_tileset = 0 /\ floor_tile = 0 /\ wall_tileset = 0 /\ wall_tile = 1
    /\ pc = "load"
    /\ i = 0
    /\ call = NoCall
    /\ result = "none"
    /\ drawn = <<>>
    /\ reads = {}
    /\ entry = NoEntry

\* Up to MaxRoomCount - 1 rooms of mixed sizes, or MaxRoomCount rooms of
\* one size
Init ==
    \/ InitMap({MaxTileSize}, {NarrowGrid, WideGrid}, {WideGrid + 1},
               0 .. (MaxRoomCount - 1),
               {<<lo, hi>> \in (1 .. MaxRoomSize) \X (1 .. MaxRoomSize) : lo <= hi})
    \/ InitMap({MaxTileSize}, {NarrowGrid, WideGrid}, {WideGrid + 1},
               {MaxRoomCount},
               {<<k, k>> : k \in 1 .. MaxRoomSize})

Next ==
    \/ LoadTileset
    \/ LoadDone
    \/ GenerateClear
    \/ GenerateRoom

Spec == Init /\ [][Next]_vars

\* A map of square rooms on which every query and draw is tried
InitQuery ==
    InitMap({MaxTileSize}, {WideGrid}, {WideGrid + 1}, {QueryRoomCount},
            {<<MaxRoomSize - 1, MaxRoomSize - 1>>, <<MaxRoomSize, MaxRoomSize>>})

NextQuery ==
    \/ LoadTileset
    \/ LoadDone
    \/ GenerateClear
    \/ GenerateRoom
    \/ GetTileAt
    \/ IsWalkable
    \/ SetTiles
    \/ Draw

SpecQuery == InitQuery /\ [][NextQuery]_vars

\* A grid one cell too narrow for the largest room; the state at entry of
\* each generate() is recorded
GenerateClearSnapshot ==
    /\ pc = "idle"
    /\ generate_clear
    /\ entry' = <<tilemap, rooms>>

InitFail ==
    InitMap({MaxTileSize}, {NarrowGrid}, {WideGrid}, {FailRoomCount},
            {<<MaxRoomSize - 1, MaxRoomSize>>, <<MaxRoomSize, MaxRoomSize>>})

NextFail ==
    \/ LoadTileset
    \/ LoadDone
    \/ GenerateClearSnapshot
    \/ GenerateRoom

SpecFail == InitFail /\ [][NextFail]_vars

(***************************************************************************)
(* Properties                                                              *)
(***************************************************************************)

\* C1: on a grid with width >= room_max_size + 2 and height >=
\* room_max_size + 2, every finished generate() has returned without error
\* and left exactly room_count rooms, each with sides within
\* [room_min_size, room_max_size] and lying inside the 1-cell border.
C1_RoomsCountedAndInsideBorder ==
    (/\ pc = "idle"
     /\ call[1] = "generate"
     /\ width >= room_max_size + 2
     /\ height >= room_max_size + 2)
    => /\ result = "returned"
       /\ Len(rooms) = room_count
       /\ \A k \in 1 .. Len(rooms) :
            /\ room_min_size <= rooms[k].w /\ rooms[k].w <= room_max_size
            /\ room_min_size <= rooms[k].h /\ rooms[k].h <= room_max_size
            /\ rooms[k].x >= 1
            /\ rooms[k].y >= 1
            /\ rooms[k].x + rooms[k].w <= width - 1
            /\ rooms[k].y + rooms[k].h <= height - 1

C1_Witness ==
    /\ pc = "idle"
    /\ call[1] = "generate"
    /\ result = "returned"
    /\ width >= room_max_size + 2
    /\ height >= room_max_size + 2
    /\ room_count = MaxRoomCount
    /\ Len(rooms) = MaxRoomCount
    /\ rooms[1] # rooms[2]

\* C2: after a successful generate() with room_count >= 2, for every
\* adjacent pair of rooms both centers are floor, and so is every cell of
\* the walk along y = start.y from start.x up to but excluding end.x and
\* then along x = end.x from start.y up to but excluding end.y.
C2_CorridorWalkIsFloor ==
    (/\ pc = "idle"
     /\ call[1] = "generate"
     /\ result = "returned"
     /\ room_count >= 2)
    => \A k \in 2 .. Len(rooms) :
         LET sx == rooms[k - 1].x + (rooms[k - 1].w \div 2)
             sy == rooms[k - 1].y + (rooms[k - 1].h \div 2)
             ex == rooms[k].x + (rooms[k].w \div 2)
             ey == rooms[k].y + (rooms[k].h \div 2)
         IN  /\ tilemap[sx][sy] = Floor
             /\ tilemap[ex][ey] = Floor
             /\ \A x \in Min(sx, ex) .. Max(sx, ex) :
                    x # ex => tilemap[x][sy] = Floor
             /\ \A y \in Min(sy, ey) .. Max(sy, ey) :
                    y # ey => tilemap[ex][y] = Floor

\* three rooms whose consecutive centers differ in both coordinates, so
\* that both corridors bend and the first one is followed by later carving
C2_Witness ==
    /\ pc = "idle"
    /\ call[1] = "generate"
    /\ result = "returned"
    /\ Len(rooms) >= 3
    /\ \A k \in 2 .. 3 :
         /\ rooms[k - 1].x + (rooms[k - 1].w \div 2) # rooms[k].x + (rooms[k].w \div 2)
         /\ rooms[k - 1].y + (rooms[k - 1].h \div 2) # rooms[k].y + (rooms[k].h \div 2)

\* C3: when generate() fails because a drawn room size leaves no position
\* (ValueError from the empty random range), the grid cells and the room
\* sequence are exactly what they were before the call.
C3_FailureLeavesMapUntouched ==
    (/\ pc = "idle"
     /\ call[1] = "generate"
     /\ result = "ValueError")
    => (tilemap = entry[1] /\ rooms = entry[2])

\* C4: in every state, for every coordinate pair, get_tile_at returns Wall
\* outside [0, width) x [0, height) and the stored cell inside, and
\* is_walkable is true exactly for an in-bounds floor cell; the values the
\* callers received agree.
C4_QueriesClosedWorld ==
    /\ \A x \in XArgs, y \in YArgs :
         LET inside == x \in 0 .. (width - 1) /\ y \in 0 .. (height - 1) IN
         /\ get_tile_at(x, y) = IF inside THEN tilemap[x][y] ELSE Wall
         /\ is_walkable(x, y) = (inside /\ tilemap[x][y] = Floor)
    /\ (call[1] = "get_tile_at") =>
         result = IF /\ call[2] \in 0 .. (width - 1)
                     /\ call[3] \in 0 .. (height - 1)
                  THEN tilemap[call[2]][call[3]]
                  ELSE Wall
    /\ (call[1] = "is_walkable") =>
         result = (/\ call[2] \in 0 .. (width - 1)
                   /\ call[3] \in 0 .. (height - 1)
                   /\ tilemap[call[2]][call[3]] = Floor)

\* an out-of-bounds query at a negative coordinate whose wrapped cell is
\* floor, and an in-bounds query that found floor
C4_Witness ==
    /\ call[1] = "get_tile_at"
    /\ call[2] = 0 - 2
    /\ call[3] \in 0 .. (height - 1)
    /\ tilemap[width - 2][call[3]] = Floor
    /\ result = Wall

\* C5: after every successful generate() the floor cells are exactly the
\* cells of the rooms of the current room sequence and of the L-shaped
\* corridors between consecutive room centers; every other cell is wall.
C5_FloorIsRoomsAndCorridors ==
    (/\ pc = "idle"
     /\ call[1] = "generate"
     /\ result = "returned")
    => \A x \in 0 .. (width - 1), y \in 0 .. (height - 1) :
         (tilemap[x][y] = Floor) <=>
            \/ \E k \in 1 .. Len(rooms) :
                 /\ rooms[k].x <= x /\ x < rooms[k].x + rooms[k].w
                 /\ rooms[k].y <= y /\ y < rooms[k].y + rooms[k].h
            \/ \E k \in 2 .. Len(rooms) :
                 LET sx == rooms[k - 1].x + (rooms[k - 1].w \div 2)
                     sy == rooms[k - 1].y + (rooms[k - 1].h \div 2)
                     ex == rooms[k].x + (rooms[k].w \div 2)
                     ey == rooms[k].y + (rooms[k].h \div 2)
                 IN  \/ /\ y = sy
                        /\ x # ex
                        /\ Min(sx, ex) <= x /\ x <= Max(sx, ex)
                     \/ /\ x = ex
                        /\ y # ey
                        /\ Min(sy, ey) <= y /\ y <= Max(sy, ey)

\* a successful generation that left wall cells inside the border and a
\* corridor cell outside every room
C5_Witness ==
    /\ pc = "idle"
    /\ call[1] = "generate"
    /\ result = "returned"
    /\ Len(rooms) >= 2
    /\ \E x \in 1 .. (width - 2), y \in 1 .. (height - 2) : tilemap[x][y] = Wall
    /\ \E x \in 1 .. (width - 2), y \in 1 .. (height - 2) :
         /\ tilemap[x][y] = Floor
         /\ \A k \in 1 .. Len(rooms) :
              ~ (/\ rooms[k].x <= x /\ x < rooms[k].x + rooms[k].w
                 /\ rooms[k].y <= y /\ y < rooms[k].y + rooms[k].h)

\* C6: a draw emits exactly one floor call for each floor cell of the
\* visible window, exactly one wall call for each wall cell of the window
\* whose cell below is in the grid and floor (inside the window or not),
\* and no call for any other cell.
C6_DrawCallsPerCell ==
    (call[1] = "draw") =>
      LET lo_x == call[2] \div tile_size
          hi_x == (call[2] + call[4]) \div tile_size
          lo_y == call[3] \div tile_size
          hi_y == (call[3] + call[5]) \div tile_size
          Calls(layer, x, y) ==
              {k \in 1 .. Len(drawn) :
                  drawn[k].layer = layer /\ drawn[k].cell = <<x, y>>}
      IN  /\ \A k \in 1 .. Len(drawn) :
                /\ drawn[k].layer \in {"floor", "wall"}
                /\ drawn[k].cell[1] \in 0 .. (width - 1)
                /\ drawn[k].cell[2] \in 0 .. (height - 1)
          /\ \A x \in 0 .. (width - 1), y \in 0 .. (height - 1) :
                LET visible == lo_x <= x /\ x <= hi_x /\ lo_y <= y /\ y <= hi_y IN
                /\ Cardinality(Calls("floor", x, y)) =
                      IF visible /\ tilemap[x][y] = Floor THEN 1 ELSE 0
                /\ Cardinality(Calls("wall", x, y)) =
                      IF /\ visible
                         /\ tilemap[x][y] = Wall
                         /\ y + 1 < height
                         /\ tilemap[x][y + 1] = Floor
                      THEN 1 ELSE 0

\* a draw from the origin with a wall call whose floor cell below lies
\* outside the window, while the visible wall (0, 0) above a wall got none
C6_Witness ==
    /\ call[1] = "draw"
    /\ call[2] = 0
    /\ call[3] = 0
    /\ \E k \in 1 .. Len(drawn) :
         /\ drawn[k].layer = "wall"
         /\ drawn[k].cell[2] + 1 > (call[3] + call[5]) \div tile_size
         /\ drawn[k].cell[2] + 1 < height
    /\ \A k \in 1 .. Len(drawn) : drawn[k].cell # <<0, 0>>

\* C7: within one draw every floor call is emitted before the first wall
\* call: no floor call follows a wall call.
C7_FloorsBeforeWalls ==
    (call[1] = "draw") =>
      \A j \in 1 .. Len(drawn), k \in 1 .. Len(drawn) :
         (drawn[j].layer = "wall" /\ drawn[k].layer = "floor") => j > k

\* a draw whose window holds a front wall that the loop order visits before
\* a floor cell
C7_Witness ==
    /\ call[1] = "draw"
    /\ \E j \in 1 .. Len(drawn), k \in 1 .. Len(drawn) :
         /\ drawn[j].layer = "wall"
         /\ drawn[k].layer = "floor"
         /\ drawn[k].cell = <<drawn[j].cell[1], drawn[j].cell[2] + 1>>

\* C8: get_tile returns None when the sheet is outside [0, sheet count) or
\* the index is outside [0, tile count of the sheet), and the stored tile
\* otherwise; get_tile_count is 0 for an invalid sheet and the number of
\* stored tiles otherwise.
C8_GetTileRangeChecked ==
    /\ \A s \in SheetArgs :
         LET sheetOk == 0 <= s /\ s < Len(tileset_images) IN
         /\ get_tile_count(s) = IF sheetOk THEN Len(tileset_images[s + 1]) ELSE 0
         /\ \A t \in IndexArgs :
              LET ok == sheetOk /\ 0 <= t /\ t < Len(tileset_images[s + 1]) IN
              /\ get_tile(s, t) = IF ok THEN tileset_images[s + 1][t + 1] ELSE None
              /\ ok => get_tile(s, t) # None
    /\ (call[1] = "get_tile") =>
         LET ok == /\ 0 <= call[2] /\ call[2] < Len(tileset_images)
                   /\ 0 <= call[3] /\ call[3] < Len(tileset_images[call[2] + 1])
         IN  result = IF ok THEN tileset_images[call[2] + 1][call[3] + 1] ELSE None
    /\ (call[1] = "get_tile_count") =>
         result = IF 0 <= call[2] /\ call[2] < Len(tileset_images)
                  THEN Len(tileset_images[call[2] + 1]) ELSE 0

\* get_tile answered None for index -1 of a loaded sheet that has tiles
C8_Witness ==
    /\ call[1] = "get_tile"
    /\ call[2] = Len(tileset_images) - 1
    /\ call[2] >= 1
    /\ call[3] = 0 - 1
    /\ Len(tileset_images[call[2] + 1]) >= 2
    /\ result = None

\* C9: construction over sources that are missing or decodable images
\* never fails; afterwards there is one sheet per located source, in the
\* order of the located sources, and sheet k holds
\* (W_k div tile_size) * (H_k div tile_size) tiles cut from its source.
C9_SheetsOfLocatedSources ==
    LET Located(k) == tileset_paths[k].kind # "missing" IN
    /\ (pc = "failed") =>
          \E k \in 1 .. Len(tileset_paths) : tileset_paths[k].kind = "corrupt"
    /\ (pc = "idle") =>
          /\ get_tileset_count =
                Cardinality({k \in 1 .. Len(tileset_paths) : Located(k)})
          /\ Len(tileset_names) = get_tileset_count
          /\ \A j \in 1 .. Len(tileset_images) :
                LET k == tileset_names[j] + 1 IN
                /\ k \in 1 .. Len(tileset_paths)
                /\ Located(k)
                /\ Cardinality({m \in 1 .. (k - 1) : Located(m)}) = j - 1
                /\ get_tile_count(j - 1) =
                      (tileset_paths[k].w \div tile_size)
                         * (tileset_paths[k].h \div tile_size)
                /\ \A t \in 1 .. Len(tileset_images[j]) :
                      tileset_images[j][t][1] = k - 1

\* image, missing, image: the third source became sheet 1, and its partial
\* trailing column and row were dropped
C9_Witness ==
    /\ pc = "idle"
    /\ Len(tileset_paths) = 3
    /\ tileset_paths[1].kind = "image"
    /\ tileset_paths[2].kind = "missing"
    /\ tileset_paths[3].kind = "image"
    /\ tileset_paths[3].w % tile_size # 0
    /\ tileset_paths[3].h % tile_size # 0
    /\ Len(tileset_images) = 2
    /\ Len(tileset_images[1]) < Len(tileset_images[2])
    /\ Len(tileset_images[2]) >= 2

\* C10: a get_tile_at, is_walkable, draw or set_tiles call leaves the grid
\* cells and the room sequence unchanged, and the answer an earlier
\* get_tile_at / is_walkable call gave is the answer the same call gives
\* after it.
C10_QueriesLeaveMapUnchanged ==
    [][(pc = "idle"
        /\ call'[1] \in {"get_tile_at", "is_walkable", "draw", "set_tiles"})
       => /\ tilemap' = tilemap
          /\ rooms' = rooms
          /\ (call[1] = "get_tile_at")
                => \A x \in {call[2]}, y \in {call[3]} :
                      get_tile_at(x, y)' = result
          /\ (call[1] = "is_walkable")
                => \A x \in {call[2]}, y \in {call[3]} :
                      is_walkable(x, y)' = result]_vars

\* is_walkable found floor on a map whose tiles were changed by set_tiles
C10_Witness ==
    /\ call[1] = "is_walkable"
    /\ result = TRUE
    /\ floor_tileset = 1
    /\ Len(rooms) = room_count

\* C11: in every state (after construction, during and after every
\* generate(), successful or failed part-way) every cell of the outer
\* border (x = 0, x = width - 1, y = 0 or y = height - 1) is wall.
C11_BorderIsWall ==
    \A x \in 0 .. (width - 1), y \in 0 .. (height - 1) :
       (x = 0 \/ x = width - 1 \/ y = 0 \/ y = height - 1)
          => tilemap[x][y] = Wall

\* a generate() that failed after carving a room that touches the border
\* on its far sides
C11_Witness ==
    /\ pc = "idle"
    /\ call[1] = "generate"
    /\ result = "ValueError"
    /\ Len(rooms) >= 1
    /\ \E k \in 1 .. Len(rooms) :
         /\ rooms[k].x + rooms[k].w = width - 1
         /\ tilemap[width - 2][rooms[k].y] = Floor

\* C12: after every successful generate() with room_count >= 1 the center
\* of rooms[0] (the spawn cell) is floor and every floor cell of the grid
\* is reachable from it by steps between horizontally or vertically
\* adjacent floor cells.
C12_FloorIsConnected ==
    LET Grid == (0 .. (width - 1)) \X (0 .. (height - 1))
        Adjacent(c, d) ==
            \/ (c[1] = d[1] /\ (c[2] = d[2] + 1 \/ c[2] = d[2] - 1))
            \/ (c[2] = d[2] /\ (c[1] = d[1] + 1 \/ c[1] = d[1] - 1))
        Grow(T) ==
            T \cup {c \in Grid : tilemap[c[1]][c[2]] = Floor
                                  /\ \E d \in T : Adjacent(c, d)}
        RECURSIVE FloorReach(_)
        FloorReach(S) ==
            UNION {IF N = S THEN S ELSE FloorReach(N) : N \in {Grow(S)}}
    IN  (/\ pc = "idle"
         /\ call[1] = "generate"
         /\ result = "returned"
         /\ room_count >= 1)
        => /\ SpawnCell \in Grid
           /\ tilemap[SpawnCell[1]][SpawnCell[2]] = Floor
           /\ \A reached \in {FloorReach({SpawnCell})} :
                 \A c \in Grid : (tilemap[c[1]][c[2]] = Floor) => c \in reached

\* a successful generation whose first two rooms neither overlap nor touch
\* and whose centers differ in both coordinates: the corner of the corridor
\* is floor outside every room
C12_Witness ==
    /\ pc = "idle"
    /\ call[1] = "generate"
    /\ result = "returned"
    /\ Len(rooms) >= 2
    /\ LET s == Center(rooms[1])
           e == Center(rooms[2])
       IN  /\ s[1] # e[1]
           /\ s[2] # e[2]
           /\ tilemap[e[1]][s[2]] = Floor
           /\ \A k \in 1 .. Len(rooms) :
                 ~ (/\ rooms[k].x <= e[1] /\ e[1] < rooms[k].x + rooms[k].w
                    /\ rooms[k].y <= s[2] /\ s[2] < rooms[k].y + rooms[k].h)

\* C13: for every camera offset (negative, zero, beyond the map) and
\* every surface size, every index at which a draw subscripts the grid,
\* the y + 1 look-up of the wall pass included, satisfies 0 <= x < width
\* and 0 <= y < height; a draw whose window lies entirely outside the map
\* reads nothing and emits no draw call.
C13_DrawReadsInsideGrid ==
    (call[1] = "draw") =>
       /\ \A c \in reads :
             /\ 0 <= c[1] /\ c[1] < width
             /\ 0 <= c[2] /\ c[2] < height
       /\ \A k \in 1 .. Len(drawn) : drawn[k].cell \in reads
       /\ (\/ call[2] + call[4] < 0
           \/ call[3] + call[5] < 0
           \/ call[2] >= width * tile_size
           \/ call[3] >= height * tile_size)
          => (drawn = <<>> /\ reads = {})

\* a draw with a negative horizontal offset whose window is the last row
\* of a generated map: the walls of that row are read and nothing below
\* them
C13_Witness ==
    /\ call[1] = "draw"
    /\ call[2] < 0
    /\ call[3] = (height - 1) * tile_size
    /\ Len(rooms) >= 1
    /\ reads # {}
    /\ \A c \in reads : c[2] = height - 1 /\ tilemap[c[1]][c[2]] = Wall

====
